---- MODULE Spec2Model ----
(***************************************************************************)
(* Model of src/app.py, the BTC & ETH market health dashboard: one         *)
(* Streamlit script that is re-run top to bottom on every widget change.   *)
(* A run loads the CSV through the memoised load_data(), reads the date    *)
(* range picker, slices the frame, builds five tabs and offers the slice   *)
(* as a CSV download.                                                      *)
(*                                                                         *)
(* Dates are days since 1970-01-01 (a DatetimeIndex entry at midnight).    *)
(* Text (CSV cells, dates) is a sequence of one-character strings.         *)
(* A float is held as an integer count of 2^-FracBits units whose          *)
(* significand has at most FloatBits bits: IEEE-754 binary64 scaled down   *)
(* from 53 bits so that TLC can enumerate it.                              *)
(***************************************************************************)
EXTENDS Integers, Sequences, FiniteSets, TLC

(* ------------------------------ bounds -------------------------------- *)
\* rows of a record set with gaps (daily series without gaps can be longer)
MaxSparseRows == 3
\* reads of the file while no load has succeeded yet
MaxReads == 2
\* bits of a float's significand (53 in binary64)
FloatBits == 6
\* a float is a multiple of 2^-FracBits
FracBits == 5

(* ----------------------------- calendar ------------------------------- *)
\* datetime.date / Timestamp -> day number (proleptic Gregorian calendar)
DaysFromCivil(y, m, d) ==
    LET yy  == IF m <= 2 THEN y - 1 ELSE y
        era == yy \div 400
        yoe == yy - era * 400
        mp  == IF m > 2 THEN m - 3 ELSE m + 9
        doy == (153 * mp + 2) \div 5 + d - 1
        doe == yoe * 365 + yoe \div 4 - yoe \div 100 + doy
    IN  era * 146097 + doe - 719468

\* day number -> [y, m, d]
CivilFromDays(z) ==
    LET zz  == z + 719468
        era == zz \div 146097
        doe == zz - era * 146097
        yoe == (doe - doe \div 1460 + doe \div 36524 - doe \div 146096) \div 365
        doy == doe - (365 * yoe + yoe \div 4 - yoe \div 100)
        mp  == (5 * doy + 2) \div 153
        d   == doy - (153 * mp + 2) \div 5 + 1
        m   == IF mp < 10 THEN mp + 3 ELSE mp - 9
        y   == yoe + era * 400 + (IF m <= 2 THEN 1 ELSE 0)
    IN  [y |-> y, m |-> m, d |-> d]

\* the fixed highlighted interval of tab 1
CorrectionStart == DaysFromCivil(2026, 2, 1)
CorrectionEnd == DaysFromCivil(2026, 2, 16)

(* ------------------------------- text --------------------------------- *)
DigitChars == <<"0", "1", "2", "3", "4", "5", "6", "7", "8", "9">>
DigitChar(k) == DigitChars[k + 1]
DigitVal(c) == CHOOSE k \in 0..9 : DigitChars[k + 1] = c

RECURSIVE Pow10(_)
Pow10(k) == IF k = 0 THEN 1 ELSE 10 * Pow10(k - 1)
RECURSIVE Pow2(_)
Pow2(k) == IF k = 0 THEN 1 ELSE 2 * Pow2(k - 1)

\* the decimal digits of n, zero-padded to width w (w = 0: no padding)
RECURSIVE DigitsOf(_, _)
DigitsOf(n, w) ==
    IF n < 10 /\ w <= 1 THEN <<DigitChar(n)>>
    ELSE Append(DigitsOf(n \div 10, w - 1), DigitChar(n % 10))

\* the number a sequence of digit characters spells
RECURSIVE NumberOf(_)
NumberOf(s) ==
    IF s = <<>> THEN 0
    ELSE 10 * NumberOf(SubSeq(s, 1, Len(s) - 1)) + DigitVal(s[Len(s)])

\* to_csv writes a midnight DatetimeIndex entry as YYYY-MM-DD
FormatDate(day) ==
    LET c == CivilFromDays(day)
    IN  DigitsOf(c.y, 4) \o <<"-">> \o DigitsOf(c.m, 2) \o <<"-">> \o DigitsOf(c.d, 2)

\* parse_dates=['date'] / pd.to_datetime on a YYYY-MM-DD cell
ParseDate(s) ==
    DaysFromCivil(NumberOf(SubSeq(s, 1, 4)), NumberOf(SubSeq(s, 6, 7)),
                  NumberOf(SubSeq(s, 9, 10)))

(* ------------------------------ floats -------------------------------- *)
Grid == Pow2(FracBits)

\* n / d rounded to an integer, ties to even
RoundHalfEven(n, d) ==
    LET q == n \div d
        r == n % d
    IN  IF 2 * r > d THEN q + 1
        ELSE IF 2 * r < d THEN q
        ELSE IF q % 2 = 0 THEN q ELSE q + 1

\* the exponent of the spacing of floats around n / d grid units
RECURSIVE SpacingExp(_, _, _)
SpacingExp(n, d, e) ==
    IF n < d * Pow2(e + FloatBits) THEN e ELSE SpacingExp(n, d, e + 1)

\* n / d grid units rounded to the nearest float (one float operation)
RoundGrid(n, d) ==
    LET e == SpacingExp(n, d, 0)
    IN  RoundHalfEven(n, d * Pow2(e)) * Pow2(e)

\* significant decimal digits that identify every float (17 for binary64)
RECURSIVE DigitsFor(_)
DigitsFor(k) == IF Pow10(k - 1) > Pow2(FloatBits) THEN k ELSE DigitsFor(k + 1)
MaxDigits == DigitsFor(1)

\* the powers of ten the converter keeps in a table of floats (e[] in
\* pandas' precise_xstrtod), in grid units
TenPow(k) == RoundGrid(Pow10(k) * Grid, 1)

NaN == [nan |-> TRUE, n |-> 0]
Float(n) == [nan |-> FALSE, n |-> n]

\* read_csv's default float converter on the characters of one cell:
\* number = number * 10. + digit for at most MaxDigits digits (each of the
\* two operations rounds), later digits only move the exponent (before the
\* point) or are dropped (after it); then one multiplication or division by
\* a power of ten.  st: [i, number, nd, exp, frac]
RECURSIVE ScanDigits(_, _)
ScanDigits(s, st) ==
    IF st.i > Len(s) THEN st
    ELSE LET c == s[st.i]
             take == RoundGrid(RoundGrid(st.number * 10, 1) + DigitVal(c) * Grid, 1)
         IN  IF c = "." THEN ScanDigits(s, [st EXCEPT !.i = @ + 1, !.frac = TRUE])
             ELSE IF st.nd < MaxDigits
                  THEN ScanDigits(s, [st EXCEPT !.i = @ + 1, !.number = take,
                                                !.nd = @ + 1,
                                                !.exp = IF st.frac THEN @ - 1 ELSE @])
                  ELSE ScanDigits(s, [st EXCEPT !.i = @ + 1,
                                                !.exp = IF st.frac THEN @ ELSE @ + 1])

ParseFloat(s) ==
    IF s = <<>> THEN NaN
    ELSE LET st == ScanDigits(s, [i |-> 1, number |-> 0, nd |-> 0, exp |-> 0,
                                  frac |-> FALSE])
         IN  IF st.exp > 0
             THEN Float(RoundGrid(st.number * TenPow(st.exp), Grid))
             ELSE Float(RoundGrid(st.number * Grid, TenPow(-st.exp)))

\* the float nearest to the decimal d * 10^q (correct rounding)
DecToFloat(d, q) ==
    IF q >= 0 THEN RoundGrid(d * Pow10(q) * Grid, 1)
    ELSE RoundGrid(d * Grid, Pow10(-q))

\* decimal exponents a float of the model can need
MinDecExp == -(MaxDigits + 1)
DecExps == MinDecExp..1

\* the k-digit decimals next to n grid units that identify it
DecCands(n, k) ==
    LET near(q) == IF q >= 0 THEN n \div (Grid * Pow10(q))
                   ELSE (n * Pow10(-q)) \div Grid
    IN  {c \in UNION {{<<near(q), q>>, <<near(q) + 1, q>>} : q \in DecExps} :
            /\ c[1] >= Pow10(k - 1)
            /\ c[1] < Pow10(k)
            /\ DecToFloat(c[1], c[2]) = n}

RECURSIVE ShortestLen(_, _)
ShortestLen(n, k) ==
    IF k >= MaxDigits \/ DecCands(n, k) # {} THEN k ELSE ShortestLen(n, k + 1)

\* distance of d * 10^q from n grid units, times 10^-MinDecExp
DecErr(n, c) ==
    LET a == c[1] * Pow10(c[2] - MinDecExp) * Grid
        b == n * Pow10(-MinDecExp)
    IN  IF a >= b THEN a - b ELSE b - a

\* repr's digits: the shortest decimal that identifies the float, the
\* nearest one among those of that length
ShortestDec(n) ==
    LET cs == DecCands(n, ShortestLen(n, 1))
    IN  CHOOSE c \in cs : \A o \in cs : DecErr(n, c) <= DecErr(n, o)

Zeros(k) == [i \in 1..k |-> "0"]

\* repr's fixed notation for the digits d and the exponent q
FormatDec(d, q) ==
    LET ds == DigitsOf(d, 0)
        k  == Len(ds)
    IN  IF q >= 0 THEN ds \o Zeros(q) \o <<".", "0">>
        ELSE IF -q < k THEN SubSeq(ds, 1, k + q) \o <<".">> \o SubSeq(ds, k + q + 1, k)
        ELSE <<"0", ".">> \o Zeros(-q - k) \o ds

\* faulty variant of FloatText: no digits after the point (float_format='%.0f')
FloatTextNoDecimals(v) ==
    IF v.nan THEN <<>>
    ELSE DigitsOf(RoundHalfEven(v.n, Grid), 0)

\* to_csv writes a float cell as repr(float), a missing value as nothing
FloatText(v) ==
    IF v.nan THEN <<>>
    ELSE IF v.n = 0 THEN <<"0", ".", "0">>
    ELSE LET c == ShortestDec(v.n) IN FormatDec(c[1], c[2])

(* ------------------------------ columns ------------------------------- *)
DateCol == "date"
PriceCols == {"btc_price_usd", "eth_price_usd"}
MaCols == {"btc_price_30d_ma", "eth_price_30d_ma"}
VolCols == {"btc_vol_30d", "eth_vol_30d"}
CorrCol == "btc_eth_price_corr_90d"
VolumeCols == {"btc_volume_7d_ma", "eth_volume_7d_ma"}
\* the nine columns of the table of tab 5
TableCols == PriceCols \cup MaCols \cup VolCols \cup {CorrCol} \cup VolumeCols
\* a column of the file that no chart reads
ExtraCol == "btc_volume"
FileCols == {DateCol, ExtraCol} \cup TableCols
ColOrder == <<"btc_price_usd", "eth_price_usd", "btc_price_30d_ma", "eth_price_30d_ma",
              "btc_vol_30d", "eth_vol_30d", "btc_eth_price_corr_90d",
              "btc_volume_7d_ma", "eth_volume_7d_ma", "btc_volume">>
ColIndex(c) == CHOOSE i \in 1..Len(ColOrder) : ColOrder[i] = c

(* --------------------------- the file on disk ------------------------- *)
\* the days the model's files and selections are drawn from: the days
\* around both ends of the highlighted interval and the window of the
\* specification's example
ExampleStart == DaysFromCivil(2026, 2, 10)
ExampleEnd == DaysFromCivil(2026, 2, 20)
SelectDays == {CorrectionStart - 1, CorrectionStart, CorrectionStart + 1,
               CorrectionEnd - 1, CorrectionEnd, CorrectionEnd + 1,
               ExampleStart, ExampleEnd}
FirstDay == CHOOSE d \in SelectDays : \A o \in SelectDays : d <= o
LastDay == CHOOSE d \in SelectDays : \A o \in SelectDays : d >= o

\* the elements of a set of days in increasing order
RECURSIVE SortedSeq(_)
SortedSeq(S) ==
    IF S = {} THEN <<>>
    ELSE LET m == CHOOSE d \in S : \A o \in S : d >= o
         IN  Append(SortedSeq(S \ {m}), m)

\* record sets with gaps, and daily series without gaps
SparseSets == {S \in SUBSET SelectDays : Cardinality(S) >= 1 /\ Cardinality(S) <= MaxSparseRows}
DenseSets == {p[1]..p[2] : p \in {q \in SelectDays \X SelectDays : q[1] < q[2]}}

\* the characters of the cell of column c in the row of a day: a
\* three-digit decimal that depends on the day and the column, empty (a
\* missing value) in some cells of the rolling-window columns
CellSeed(day, c) == ((day * 37 + ColIndex(c) * 101) % 900) + 100
CellText(day, c) ==
    LET k == CellSeed(day, c)
        a == DigitChar(k \div 100)
        b == DigitChar((k \div 10) % 10)
        e == DigitChar(k % 10)
    IN  IF c \in MaCols \cup VolCols \cup {CorrCol} /\ k % 5 = 0 THEN <<>>
        ELSE IF c \in VolCols THEN <<a, ".", b, e>>
        ELSE IF c = CorrCol THEN <<"0", ".", b, e>>
        ELSE <<a, b, ".", e>>

MissingFile == [exists |-> FALSE, cols |-> {}, days |-> <<>>]
GoodFiles == {[exists |-> TRUE, cols |-> FileCols, days |-> SortedSeq(S)] :
                 S \in SparseSets \cup DenseSets}
\* files that lack the date column or one of the nine numeric columns
BadFiles == {[exists |-> TRUE, cols |-> FileCols \ {c}, days |-> SortedSeq(S)] :
                c \in {DateCol} \cup TableCols,
                S \in {T \in SparseSets : Cardinality(T) <= 2}}
Files == {MissingFile} \cup GoodFiles \cup BadFiles

\* the file as read_csv sees it: a header and rows of cells
FileTable(f) ==
    [cols |-> f.cols,
     rows |-> [i \in 1..Len(f.days) |->
                 [c \in f.cols |-> IF c = DateCol THEN FormatDate(f.days[i])
                                   ELSE CellText(f.days[i], c)]]]

(* --------------------------- the data frame --------------------------- *)
\* every float cell text of the model's files, converted once
CellTexts == {CellText(d, c) : d \in FirstDay..LastDay, c \in FileCols \ {DateCol}}
ParsedCell == [t \in CellTexts |-> ParseFloat(t)]
\* every value a frame can hold, formatted once
FrameValues == {ParsedCell[t] : t \in CellTexts}
WrittenCell == [v \in FrameValues |-> FloatText(v)]
\* every float text a file or an export can hold, converted once
ParsedText == [t \in CellTexts \cup {WrittenCell[v] : v \in FrameValues} |->
                 IF t \in CellTexts THEN ParsedCell[t] ELSE ParseFloat(t)]
DayTexts == {FormatDate(d) : d \in FirstDay..LastDay}
ParsedDay == [t \in DayTexts |-> ParseDate(t)]

ParseDateError == "Missing column provided to 'parse_dates': 'date'"

\* faulty variant of ReadCsv: the nine columns are checked at the load
ReadCsvChecked(table) ==
    IF ~(({DateCol} \cup TableCols) \subseteq table.cols)
    THEN [ok |-> FALSE, cause |-> ParseDateError]
    ELSE [ok |-> TRUE,
          df |-> [cols |-> table.cols \ {DateCol},
                  rows |-> [i \in 1..Len(table.rows) |->
                              [date |-> ParsedDay[table.rows[i][DateCol]],
                               v |-> [c \in table.cols \ {DateCol} |->
                                        ParsedText[table.rows[i][c]]]]]]]

\* pd.read_csv(..., parse_dates=['date'], index_col='date') followed by
\* pd.to_datetime on the index
ReadCsv(table) ==
    IF DateCol \notin table.cols
    THEN [ok |-> FALSE, cause |-> ParseDateError]
    ELSE [ok |-> TRUE,
          df |-> [cols |-> table.cols \ {DateCol},
                  rows |-> [i \in 1..Len(table.rows) |->
                              [date |-> ParsedDay[table.rows[i][DateCol]],
                               v |-> [c \in table.cols \ {DateCol} |->
                                        ParsedText[table.rows[i][c]]]]]]]

\* DataFrame.to_csv(): the index as the date column, then every column
ToCsv(frame) ==
    [cols |-> frame.cols \cup {DateCol},
     rows |-> [i \in 1..Len(frame.rows) |->
                 [c \in frame.cols \cup {DateCol} |->
                    IF c = DateCol THEN FormatDate(frame.rows[i].date)
                    ELSE WrittenCell[frame.rows[i].v[c]]]]]

\* Timestamps; NaT is what min() and max() of an empty index return
NaT == [nat |-> TRUE, day |-> 0]
Ts(day) == [nat |-> FALSE, day |-> day]
\* a comparison with NaT is False
TsLe(a, b) == ~a.nat /\ ~b.nat /\ a.day <= b.day

IndexOf(frame) == [i \in 1..Len(frame.rows) |-> frame.rows[i].date]
IndexMin(frame) == IF frame.rows = <<>> THEN NaT ELSE Ts(frame.rows[1].date)
IndexMax(frame) == IF frame.rows = <<>> THEN NaT ELSE Ts(frame.rows[Len(frame.rows)].date)

\* Index.searchsorted on the increasing index: the rows before the key
SearchLeft(frame, key) == Cardinality({i \in 1..Len(frame.rows) : frame.rows[i].date < key})
SearchRight(frame, key) == Cardinality({i \in 1..Len(frame.rows) : frame.rows[i].date <= key})

\* faulty variants of LocSlice: the end label left out; the two labels put in order
LocSliceExclusive(frame, start, end) ==
    [cols |-> frame.cols,
     rows |-> SubSeq(frame.rows, SearchLeft(frame, start) + 1, SearchLeft(frame, end))]
LocSliceOrdered(frame, start, end) ==
    [cols |-> frame.cols,
     rows |-> SubSeq(frame.rows,
                     SearchLeft(frame, IF start <= end THEN start ELSE end) + 1,
                     SearchRight(frame, IF start <= end THEN end ELSE start))]

\* df.loc[start:end] on a DatetimeIndex: label slicing, both ends included
LocSlice(frame, start, end) ==
    [cols |-> frame.cols,
     rows |-> SubSeq(frame.rows, SearchLeft(frame, start) + 1, SearchRight(frame, end))]

\* DataFrame.tail(k): the last k rows
TailOf(frame, k) ==
    [cols |-> frame.cols,
     rows |-> SubSeq(frame.rows, IF Len(frame.rows) > k THEN Len(frame.rows) - k + 1 ELSE 1,
                     Len(frame.rows))]

\* frame[[...]]: the listed columns only
Restrict(frame, cols) ==
    [cols |-> cols,
     rows |-> [i \in 1..Len(frame.rows) |->
                 [date |-> frame.rows[i].date,
                  v |-> [c \in cols |-> frame.rows[i].v[c]]]]]

TailRows == 15
RoundDecimals == 2

\* numpy's round: rint(x * 10^decimals) / 10^decimals in float arithmetic
RoundFloat(v) ==
    IF v.nan THEN v
    ELSE LET scaled == RoundGrid(v.n * TenPow(RoundDecimals), Grid)
             whole  == RoundHalfEven(scaled, Grid)
         IN  Float(RoundGrid(whole * Grid * Grid, TenPow(RoundDecimals)))
RoundedCell == [v \in FrameValues |-> RoundFloat(v)]

\* DataFrame.round(2)
Round(frame) ==
    [cols |-> frame.cols,
     rows |-> [i \in 1..Len(frame.rows) |->
                 [date |-> frame.rows[i].date,
                  v |-> [c \in frame.cols |-> RoundedCell[frame.rows[i].v[c]]]]]]

(* ------------------------------ the state ----------------------------- *)
VARIABLES
    file,         \* enriched_btc_eth_metrics_2024_current.csv on disk
    cache,        \* the memo of st.cache_data for load_data()
    reads,        \* calls of pd.read_csv so far
    pc,           \* where the current run of the script is
    df,           \* the frame load_data() returned to this run
    date_range,   \* what st.sidebar.date_input returned
    filtered_df,
    fig1, fig2, fig3, fig4,
    recent,       \* the frame shown by st.dataframe
    csv,          \* the data of the download button
    out,          \* the elements this run has emitted, in order
    error         \* st.error's message, or the uncaught exception

runVars == <<df, date_range, filtered_df, fig1, fig2, fig3, fig4, recent, csv, out, error>>
vars == <<file, cache, reads, pc, df, date_range, filtered_df, fig1, fig2, fig3, fig4,
          recent, csv, out, error>>

None == [none |-> TRUE]
NoError == [kind |-> "none", text |-> <<>>]
NotFoundMessage ==
    "Data file not found. Please make sure 'enriched_btc_eth_metrics_2024_current.csv' exists in the same folder."
LoadErrorPrefix == "Error loading data: "

BetweenRuns == {"idle", "done", "halted", "crashed"}

FreshRun ==
    /\ df = None
    /\ date_range = <<>>
    /\ filtered_df = None
    /\ fig1 = None
    /\ fig2 = None
    /\ fig3 = None
    /\ fig4 = None
    /\ recent = None
    /\ csv = None
    /\ out = <<>>
    /\ error = NoError

Init ==
    /\ file \in Files
    /\ cache = None
    /\ reads = 0
    /\ pc = "idle"
    /\ FreshRun

(* ---------------------------- the environment ------------------------- *)
\* the file is deleted between two runs
RemoveFile ==
    /\ pc \in BetweenRuns
    /\ file.exists
    /\ file' = MissingFile
    /\ UNCHANGED <<cache, reads, pc, runVars>>

\* the pipeline appends the row of a later day between two runs
AppendDay ==
    /\ pc \in BetweenRuns
    /\ file.exists
    /\ \E d \in SelectDays :
          /\ d > file.days[Len(file.days)]
          /\ \A o \in SelectDays : o > file.days[Len(file.days)] => d <= o
          /\ file' = [file EXCEPT !.days = Append(@, d)]
    /\ UNCHANGED <<cache, reads, pc, runVars>>

(* ------------------------------- one run ------------------------------ *)
\* a page load or a widget change starts the script from the top with
\* fresh globals; only the memo survives
StartRun ==
    /\ pc \in BetweenRuns
    /\ cache # None \/ reads < MaxReads
    /\ pc' = "load"
    /\ df' = None
    /\ date_range' = <<>>
    /\ filtered_df' = None
    /\ fig1' = None
    /\ fig2' = None
    /\ fig3' = None
    /\ fig4' = None
    /\ recent' = None
    /\ csv' = None
    /\ out' = <<>>
    /\ error' = NoError
    /\ UNCHANGED <<file, cache, reads>>

\* faulty variant of MemoHit: no memo, every run reads the file
MemoNever == FALSE

\* line 20: @st.cache_data answers from the memo once a call has returned
MemoHit == cache # None

\* faulty variant of FileNotFound: st.stop() forgotten after the message
FileNotFoundNoStop ==
    /\ error' = [kind |-> "st.error", text |-> <<NotFoundMessage>>]
    /\ pc' = "header"
    /\ UNCHANGED <<cache, df>>

\* lines 30-32: the fixed message, then st.stop()
FileNotFound ==
    /\ error' = [kind |-> "st.error", text |-> <<NotFoundMessage>>]
    /\ pc' = "halted"
    /\ UNCHANGED <<cache, df>>

\* lines 33-35: the message with the text of the exception, then st.stop()
LoadFailed(cause) ==
    /\ error' = [kind |-> "st.error", text |-> <<LoadErrorPrefix, cause>>]
    /\ pc' = "halted"
    /\ UNCHANGED <<cache, df>>

\* lines 20-37: df = load_data() under @st.cache_data.  A hit returns the
\* memoised frame without running the body; a miss runs it, and only a
\* returned frame is memoised (st.stop() leaves by an exception)
LoadData ==
    /\ pc = "load"
    /\ IF MemoHit
       THEN /\ df' = cache
            /\ pc' = "header"
            /\ UNCHANGED <<cache, reads, error>>
       ELSE /\ reads' = reads + 1
            /\ IF ~file.exists
               THEN FileNotFound
               ELSE LET r == ReadCsv(FileTable(file))
                    IN  IF r.ok
                        THEN /\ cache' = r.df
                             /\ df' = r.df
                             /\ pc' = "header"
                             /\ UNCHANGED error
                        ELSE LoadFailed(r.cause)
    /\ UNCHANGED <<file, date_range, filtered_df, fig1, fig2, fig3, fig4, recent, csv, out>>

\* lines 42-47
Header ==
    /\ pc = "header"
    /\ out' = out \o <<"title", "markdown">>
    /\ pc' = "sidebar"
    /\ UNCHANGED <<file, cache, reads, df, date_range, filtered_df, fig1, fig2, fig3, fig4,
                   recent, csv, error>>

\* what the range picker can return: no date, one date (the user is
\* mid-pick) or two dates, each between min_value and max_value; the
\* script does not check their order
Selections(frame) ==
    LET days == {d \in SelectDays : TsLe(IndexMin(frame), Ts(d)) /\ TsLe(Ts(d), IndexMax(frame))}
    IN  {<<>>} \cup {<<a>> : a \in days} \cup {<<a, b>> : a \in days, b \in days}

\* lines 52-59
Sidebar ==
    /\ pc = "sidebar"
    /\ \E sel \in Selections(df) : date_range' = sel
    /\ out' = out \o <<"sidebar.header", "date_input">>
    /\ pc' = "filter"
    /\ UNCHANGED <<file, cache, reads, df, filtered_df, fig1, fig2, fig3, fig4, recent, csv,
                   error>>

\* faulty variant of FilterRows: one picked date is taken as the start of the range
FilterRowsFromStart(frame, sel) ==
    IF Len(sel) = 2 THEN LocSlice(frame, sel[1], sel[2])
    ELSE IF Len(sel) = 1 THEN LocSlice(frame, sel[1], LastDay)
    ELSE frame

\* lines 61-77
FilterRows(frame, sel) ==
    IF Len(sel) = 2 THEN LocSlice(frame, sel[1], sel[2]) ELSE frame

Filter ==
    /\ pc = "filter"
    /\ filtered_df' = FilterRows(df, date_range)
    /\ out' = out \o <<"tabs">>
    /\ pc' = "tab1"
    /\ UNCHANGED <<file, cache, reads, df, date_range, fig1, fig2, fig3, fig4, recent, csv,
                   error>>

\* the columns among `order` that the frame lacks, in the order of access
Missing(order, frame) == SelectSeq(order, LAMBDA c : c \notin frame.cols)

\* an exception nothing catches ends the run; Streamlit shows it
Uncaught(kind, col) ==
    /\ error' = [kind |-> "uncaught", text |-> <<kind, col>>]
    /\ pc' = "crashed"

Trace(name, frame, col) == [name |-> name, x |-> IndexOf(frame), ycol |-> col]

\* faulty variant of InCorrection: only the start of the interval is compared
InCorrectionFromStart(frame) == TsLe(Ts(CorrectionStart), IndexMax(frame))

\* line 112: the guard of add_vrect
InCorrection(frame) ==
    /\ TsLe(Ts(CorrectionStart), IndexMax(frame))
    /\ TsLe(IndexMin(frame), Ts(CorrectionEnd))

\* lines 82-132
Tab1Cols == <<"btc_price_usd", "btc_price_30d_ma", "eth_price_usd", "eth_price_30d_ma">>
Tab1 ==
    /\ pc = "tab1"
    /\ IF Missing(Tab1Cols, filtered_df) # <<>>
       THEN /\ Uncaught("KeyError", Missing(Tab1Cols, filtered_df)[1])
            /\ out' = out \o <<"subheader">>
            /\ UNCHANGED fig1
       ELSE /\ fig1' = [traces |-> <<Trace("BTC Price", filtered_df, Tab1Cols[1]),
                                     Trace("BTC 30d MA", filtered_df, Tab1Cols[2]),
                                     Trace("ETH Price", filtered_df, Tab1Cols[3]),
                                     Trace("ETH 30d MA", filtered_df, Tab1Cols[4])>>,
                        vrect |-> InCorrection(filtered_df)]
            /\ out' = out \o <<"subheader", "plotly_chart">>
            /\ pc' = "tab2"
            /\ UNCHANGED error
    /\ UNCHANGED <<file, cache, reads, df, date_range, filtered_df, fig2, fig3, fig4, recent,
                   csv>>

\* lines 137-159
Tab2Cols == <<"btc_vol_30d", "eth_vol_30d">>
Tab2 ==
    /\ pc = "tab2"
    /\ IF Missing(Tab2Cols, filtered_df) # <<>>
       THEN /\ Uncaught("KeyError", Missing(Tab2Cols, filtered_df)[1])
            /\ out' = out \o <<"subheader">>
            /\ UNCHANGED fig2
       ELSE /\ fig2' = [traces |-> <<Trace("BTC 30d Vol (Ann.)", filtered_df, Tab2Cols[1]),
                                     Trace("ETH 30d Vol (Ann.)", filtered_df, Tab2Cols[2])>>]
            /\ out' = out \o <<"subheader", "plotly_chart">>
            /\ pc' = "tab3"
            /\ UNCHANGED error
    /\ UNCHANGED <<file, cache, reads, df, date_range, filtered_df, fig1, fig3, fig4, recent,
                   csv>>

\* lines 164-188: px.line, then the zero line from the first to the last
\* date of the slice
Tab3 ==
    /\ pc = "tab3"
    /\ IF CorrCol \notin filtered_df.cols
       THEN /\ Uncaught("ValueError", CorrCol)
            /\ out' = out \o <<"subheader">>
            /\ UNCHANGED fig3
       ELSE /\ fig3' = [traces |-> <<Trace("", filtered_df, CorrCol)>>,
                        shapes |-> <<[x0 |-> IndexMin(filtered_df),
                                      x1 |-> IndexMax(filtered_df),
                                      y0 |-> 0, y1 |-> 0]>>]
            /\ out' = out \o <<"subheader", "plotly_chart">>
            /\ pc' = "tab4"
            /\ UNCHANGED error
    /\ UNCHANGED <<file, cache, reads, df, date_range, filtered_df, fig1, fig2, fig4, recent,
                   csv>>

\* lines 193-216
Tab4Cols == <<"btc_volume_7d_ma", "eth_volume_7d_ma">>
Tab4 ==
    /\ pc = "tab4"
    /\ IF Missing(Tab4Cols, filtered_df) # <<>>
       THEN /\ Uncaught("KeyError", Missing(Tab4Cols, filtered_df)[1])
            /\ out' = out \o <<"subheader">>
            /\ UNCHANGED fig4
       ELSE /\ fig4' = [traces |-> <<Trace("BTC 7d Avg Volume", filtered_df, Tab4Cols[1]),
                                     Trace("ETH 7d Avg Volume", filtered_df, Tab4Cols[2])>>]
            /\ out' = out \o <<"subheader", "plotly_chart">>
            /\ pc' = "tab5"
            /\ UNCHANGED error
    /\ UNCHANGED <<file, cache, reads, df, date_range, filtered_df, fig1, fig2, fig3, recent,
                   csv>>

\* faulty variant of ExportOf: the download is cut like the table
ExportOfTail(frame) == ToCsv(TailOf(frame, TailRows))

\* line 224-230: the frame of the table
RecentRows(frame) == Round(Restrict(TailOf(frame, TailRows), TableCols))
\* line 242: the data of the download
ExportOf(frame) == ToCsv(frame)

\* faulty variant of Tab5: the rounding is done in place on the memoised frame
Tab5InPlace ==
    /\ pc = "tab5"
    /\ TableCols \subseteq filtered_df.cols
    /\ recent' = RecentRows(filtered_df)
    /\ cache' = [cache EXCEPT !.rows = [i \in 1..Len(cache.rows) |->
                    [cache.rows[i] EXCEPT !.v = [c \in cache.cols |->
                        RoundedCell[cache.rows[i].v[c]]]]]]
    /\ csv' = ExportOf(filtered_df)
    /\ out' = out \o <<"subheader", "dataframe", "download_button">>
    /\ pc' = "footer"
    /\ UNCHANGED <<file, reads, df, date_range, filtered_df, fig1, fig2, fig3, fig4, error>>

\* lines 221-248
Tab5 ==
    /\ pc = "tab5"
    /\ IF ~(TableCols \subseteq filtered_df.cols)
       THEN /\ Uncaught("KeyError", CHOOSE c \in TableCols : c \notin filtered_df.cols)
            /\ out' = out \o <<"subheader">>
            /\ UNCHANGED <<recent, csv>>
       ELSE /\ recent' = RecentRows(filtered_df)
            /\ csv' = ExportOf(filtered_df)
            /\ out' = out \o <<"subheader", "dataframe", "download_button">>
            /\ pc' = "footer"
            /\ UNCHANGED error
    /\ UNCHANGED <<file, cache, reads, df, date_range, filtered_df, fig1, fig2, fig3, fig4>>

\* lines 253-254
Footer ==
    /\ pc = "footer"
    /\ out' = out \o <<"markdown", "caption">>
    /\ pc' = "done"
    /\ UNCHANGED <<file, cache, reads, df, date_range, filtered_df, fig1, fig2, fig3, fig4,
                   recent, csv, error>>

Next ==
    \/ RemoveFile
    \/ AppendDay
    \/ StartRun
    \/ LoadData
    \/ Header
    \/ Sidebar
    \/ Filter
    \/ Tab1
    \/ Tab2
    \/ Tab3
    \/ Tab4
    \/ Tab5
    \/ Footer

Spec == Init /\ [][Next]_vars

(* ------------------------------- claims ------------------------------- *)
Filtered == filtered_df # None
Pair == Len(date_range) = 2
Charts == Len(SelectSeq(out, LAMBDA e : e = "plotly_chart"))

\* the rows of the loaded frame that the selection of this run covers
Covered ==
    IF Pair
    THEN SelectSeq(df.rows, LAMBDA r : date_range[1] <= r.date /\ r.date <= date_range[2])
    ELSE df.rows

\* C1: for a two-element selection (start, end) the slice holds exactly the
\* rows of the loaded frame with start <= date <= end, in the frame's order,
\* with the frame's columns.
C1_InclusiveSlice ==
    (Filtered /\ Pair) =>
        /\ filtered_df.cols = df.cols
        /\ filtered_df.rows =
              SelectSeq(df.rows,
                        LAMBDA r : date_range[1] <= r.date /\ r.date <= date_range[2])

\* C1 witness: the daily series up to 2026-02-20 with the selection
\* (2026-02-10, 2026-02-20) gives the 11 rows of the window.
C1_Witness ==
    /\ Filtered
    /\ date_range = <<ExampleStart, ExampleEnd>>
    /\ Len(df.rows) > 11
    /\ Len(filtered_df.rows) = 11

\* C2 as stated: the band is drawn iff the selection [start, end] overlaps
\* 2026-02-01..2026-02-16.
C2_BandIffSelectionOverlaps ==
    (fig1 # None /\ Pair) =>
        (fig1.vrect <=> (date_range[1] <= CorrectionEnd /\ date_range[2] >= CorrectionStart))

\* C2 amended: the band is drawn iff the slice has a row dated on or before
\* 2026-02-16 and a row dated on or after 2026-02-01, the slice being the
\* rows the selection covers (all rows when the selection is no pair).
C2_BandIffSliceOverlaps ==
    (fig1 # None) =>
        (fig1.vrect <=>
            /\ \E i \in 1..Len(Covered) : Covered[i].date <= CorrectionEnd
            /\ \E i \in 1..Len(Covered) : Covered[i].date >= CorrectionStart)

\* C2 witness: an ordered selection that overlaps the interval, a slice
\* that is not empty, and no band.
C2_Witness ==
    /\ fig1 # None
    /\ Pair
    /\ date_range[1] <= date_range[2]
    /\ date_range[1] <= CorrectionEnd
    /\ date_range[2] >= CorrectionStart
    /\ filtered_df.rows # <<>>
    /\ ~fig1.vrect

\* C3: with start > end the slice is empty and the run of a frame that has
\* the nine columns goes through every builder to its end: no band, empty
\* traces, a zero line from NaT to NaT, an empty table and an export without
\* rows.
C3_InvertedRangeIsEmpty ==
    (Pair /\ date_range[1] > date_range[2] /\ TableCols \subseteq df.cols) =>
        /\ pc \notin {"crashed", "halted"}
        /\ Filtered => filtered_df.rows = <<>>
        /\ fig1 # None =>
              /\ ~fig1.vrect
              /\ \A i \in 1..Len(fig1.traces) : fig1.traces[i].x = <<>>
        /\ fig3 # None =>
              /\ fig3.traces[1].x = <<>>
              /\ fig3.shapes[1].x0 = NaT
              /\ fig3.shapes[1].x1 = NaT
        /\ pc = "done" =>
              /\ fig2.traces[1].x = <<>>
              /\ fig4.traces[1].x = <<>>
              /\ recent.rows = <<>>
              /\ csv.rows = <<>>
              /\ Charts = 4
              /\ error = NoError

\* C3 witness: a finished run with an inverted selection.
C3_Witness ==
    /\ pc = "done"
    /\ Pair
    /\ date_range[1] > date_range[2]

\* C4: a selection that is no pair leaves the whole frame, and the run of a
\* frame that has the nine columns does not fail.
C4_NoPairKeepsAll ==
    (Filtered /\ ~Pair) =>
        /\ filtered_df = df
        /\ filtered_df = cache
        /\ TableCols \subseteq df.cols => pc \notin {"crashed", "halted"}

\* C4 witness: a finished run whose selection is one date.
C4_Witness ==
    /\ pc = "done"
    /\ Len(date_range) = 1
    /\ Len(filtered_df.rows) > 1

\* C5 as stated: a load step taken while the file does not exist emits the
\* fixed message and halts.
C5_MissingFileAlwaysHalts ==
    [][(pc = "load" /\ ~file.exists) =>
          (pc' = "halted" /\ error' = [kind |-> "st.error", text |-> <<NotFoundMessage>>])]_vars

\* C5 amended: a load step taken while the file does not exist and no
\* earlier run has memoised a frame emits the fixed message and halts with
\* nothing else emitted; a halted run takes no further step (only a new run
\* follows).
C5_MissingFileHaltsUnlessMemoised ==
    [][/\ (pc = "load" /\ ~file.exists /\ cache = None) =>
             /\ pc' = "halted"
             /\ error' = [kind |-> "st.error", text |-> <<NotFoundMessage>>]
             /\ out' = <<>>
             /\ cache' = None
       /\ (pc = "halted") =>
             /\ pc' \in {"halted", "load"}
             /\ pc' = "halted" => UNCHANGED runVars
             /\ out = <<>> /\ df = None /\ filtered_df = None /\ fig1 = None /\ csv = None]_vars

\* C5 witness: a run halted by the missing file.
C5_Witness ==
    /\ pc = "halted"
    /\ ~file.exists
    /\ error.text = <<NotFoundMessage>>

\* C6 as stated: no run holds a frame that lacks one of the nine columns
\* (the load would have halted) and no run ends by an uncaught exception.
C6_LoadRejectsMissingColumn ==
    /\ df # None => TableCols \subseteq df.cols
    /\ pc # "crashed"
    /\ (pc = "halted" /\ file.exists) => error.text[1] = LoadErrorPrefix

\* the tab that reads a column first
TabOf(c) ==
    IF c \in PriceCols \cup MaCols THEN 1
    ELSE IF c \in VolCols THEN 2
    ELSE IF c = CorrCol THEN 3
    ELSE 4

\* C6 amended: a read of a file without the date column halts the load with
\* 'Error loading data: <error text>'; a read of a file with the date column
\* succeeds whatever other columns it lacks, and a run whose frame lacks one
\* of the nine columns ends by an uncaught exception in the first tab that
\* reads a lacking column, after the charts of the tabs before it.
C6_OnlyDateColumnIsChecked ==
    [][/\ (pc = "load" /\ cache = None /\ file.exists /\ DateCol \notin file.cols) =>
             /\ pc' = "halted"
             /\ error' = [kind |-> "st.error", text |-> <<LoadErrorPrefix, ParseDateError>>]
             /\ out' = <<>>
       /\ (pc = "load" /\ cache = None /\ file.exists /\ DateCol \in file.cols) =>
             /\ pc' = "header"
             /\ df'.cols = file.cols \ {DateCol}
             /\ error' = NoError
       /\ (pc' = "crashed") =>
             /\ error'.kind = "uncaught"
             /\ error'.text[2] \in TableCols \ df'.cols
             /\ \A c \in TableCols \ df'.cols : TabOf(error'.text[2]) <= TabOf(c)
             /\ Len(SelectSeq(out', LAMBDA e : e = "plotly_chart")) = TabOf(error'.text[2]) - 1
       /\ (pc' = "done") => TableCols \subseteq df'.cols]_vars

\* C6 witness: the volatility column is missing; the price chart is drawn
\* and the run ends in tab 2.
C6_Witness ==
    /\ pc = "crashed"
    /\ error = [kind |-> "uncaught", text |-> <<"KeyError", "btc_vol_30d">>]
    /\ Charts = 1

\* C7: once a load has succeeded the memo never changes and the file is not
\* read again; every later run gets the memoised frame, whatever has become
\* of the file.
C7_LoadedOnce ==
    [][/\ (cache # None) => (cache' = cache /\ reads' = reads)
       /\ (pc = "load" /\ cache # None) => (df' = cache /\ pc' = "header")
       /\ (df' # None) => df' = cache']_vars

\* C7 witness: a run in progress on the memoised frame after the file was
\* deleted.
C7_Witness ==
    /\ pc = "header"
    /\ ~file.exists
    /\ df = cache
    /\ reads = 1

\* two floats with at most two floats between them or equal, or both missing
CloseFloats(a, b) ==
    IF a = b THEN TRUE
    ELSE /\ ~a.nan
         /\ ~b.nan
         /\ LET lo == IF a.n < b.n THEN a.n ELSE b.n
                hi == IF a.n < b.n THEN b.n ELSE a.n
            IN  Cardinality({n \in (lo + 1)..hi : RoundGrid(n, 1) = n}) <= 2

C9_TableIsTailExportIsWhole ==
    (recent # None) =>
        LET n == Len(filtered_df.rows)
            m == IF n < TailRows THEN n ELSE TailRows
        IN  /\ recent.cols = TableCols
            /\ Len(recent.rows) = m
            /\ \A i \in 1..m :
                  /\ recent.rows[i].date = filtered_df.rows[n - m + i].date
                  /\ \A c \in TableCols :
                        recent.rows[i].v[c] = RoundedCell[filtered_df.rows[n - m + i].v[c]]
            /\ csv.cols = df.cols \cup {DateCol}
            /\ Len(csv.rows) = n
            /\ \A i \in 1..n : ParsedDay[csv.rows[i][DateCol]] = filtered_df.rows[i].date

\* C9 witness: a slice of more than 15 rows, a table of 15 and an export of
\* all of them.
C9_Witness ==
    /\ recent # None
    /\ Len(filtered_df.rows) > TailRows
    /\ Len(recent.rows) = TailRows
    /\ Len(csv.rows) = Len(filtered_df.rows)

\* C10: no step after the load changes the memoised frame or the frame of
\* the run, and what a finished run shows is a function of the memoised
\* frame and of the selection of this run alone.
C10_RunLeavesMemoAlone ==
    [][/\ (pc # "load") => cache' = cache
       /\ (pc \notin BetweenRuns \cup {"load"}) => (df' = df /\ df = cache)
       /\ (pc' = "done") =>
             /\ filtered_df' = FilterRows(cache', date_range')
             /\ fig1'.vrect = InCorrection(FilterRows(cache', date_range'))
             /\ recent' = RecentRows(FilterRows(cache', date_range'))
             /\ csv' = ExportOf(FilterRows(cache', date_range'))]_vars

\* C10 witness: a later run, on the memo after the file was deleted, has
\* built its table and export.
C10_Witness ==
    /\ pc = "footer"
    /\ ~file.exists
    /\ recent # None
    /\ Len(filtered_df.rows) < Len(cache.rows)

====
